---- MODULE Spec2Model ----
(***************************************************************************)
(* The useChat hook of frontend/hooks/useChat.ts: the conversation state   *)
(* (messages, conversationId, pendingClarificationIndex), the loading and  *)
(* error cells, and the requests awaiting the Query API.                   *)
(*                                                                         *)
(* An optional value (a TypeScript `x?: T`, or `string | null`) is the     *)
(* empty sequence when absent and the one-element sequence <<v>> when      *)
(* present.  Indices into sub_answers are 0-based, as in the code.         *)
(* A message id is the string makeId() returns; only equality of ids is    *)
(* ever used, so ids are modelled as naturals.  The timestamp field is     *)
(* written once and never read by the hook; it is left out.  A user        *)
(* message has no isLoading field; it is modelled as FALSE, which is how   *)
(* every reader of the field treats its absence.                           *)
(*                                                                         *)
(* One step is one run of the event loop: the synchronous part of a        *)
(* handler up to its await, or the continuation after the await (try or    *)
(* catch, then finally).  The setState updaters of one step are applied    *)
(* in order to the state of that moment.  A handler is the callback of     *)
(* the latest render, so the state it reads is the current one.            *)
(***************************************************************************)
EXTENDS Integers, Sequences, FiniteSets, TLC

VARIABLES
    state,      \* useState<ConversationState>: messages, conversationId, pendingClarificationIndex
    loading,    \* useState(false)
    error,      \* useState<string | null>(null)
    inflight,   \* the sendQuery / sendClarification promises not yet settled
    calls,      \* history: number of requests dispatched since the initial state
    collisions, \* history: number of makeId() draws that returned an id already in use
    lastResolved, \* history: the response of the latest resolveMessage since the last clearChat
    lastOp,     \* history: the handler or continuation that ran last
    returned    \* history: per dispatched call, the state of the promise its handler returned

vars == <<state, loading, error, inflight, calls, collisions, lastResolved, lastOp,
         returned>>

----------------------------------------------------------------------------
(* Bounds *)

MaxCalls == 2
MaxCollisions == 1

----------------------------------------------------------------------------
(* Optional values *)

Undefined == <<>>
Some(v) == <<v>>
Null == <<>>

\* JavaScript truthiness of an optional string: undefined and "" are falsy.
Truthy(opt) == opt # Undefined /\ opt[1] # ""

\* opt ?? dflt
OrElse(opt, dflt) == IF opt = Undefined THEN dflt ELSE opt[1]

----------------------------------------------------------------------------
(* Inputs: what the caller passes and what the Query API answers *)

Prompts == {"What is HyDE?"}
PdfPaths == {Some("paper.pdf")}
Answers == {"yearly revenue"}

SubAnswer(q, st, ans) == [query |-> q, status |-> st, answer |-> ans, citations |-> <<>>]

saAnswered == SubAnswer("What is HyDE?", "answered", "HyDE generates a hypothetical document...")
saClarify == SubAnswer("revenue?", "clarification_required", "")
saFailed == SubAnswer("margin?", "failed", "no context")

Response(cid, st, sas) == [conversation_id |-> cid, status |-> st, sub_answers |-> sas]

\* The responses the Query API may return.  The hook validates nothing, so
\* inconsistent ones (clarification_required without such a sub-answer, an
\* empty conversation_id, no sub-answers at all) are among them.
Responses ==
    { Response("c1", "answered", <<saAnswered>>),
      Response("c2", "partial", <<saFailed, saAnswered>>) }
    \cup { Response("c1", "clarification_required", sas) :
             sas \in { <<saClarify>>, <<saAnswered, saClarify>>, <<saAnswered>> } }
    \cup { Response("", "clarification_required", <<saClarify>>),
           Response("c1", "failure", <<>>) }

\* What a rejected promise carries: an Error with its message, or any other
\* value (here one that has a message property too, and is still no Error).
Rejections ==
    { [isError |-> TRUE, message |-> "timeout"],
      [isError |-> FALSE, message |-> "boom"] }

----------------------------------------------------------------------------
(* makeId: Math.random().toString(36).slice(2, 10) *)

\* The ids some message or some unsettled request still holds.
IdsInUse(st, reqs) ==
    { st.messages[i].id : i \in DOMAIN st.messages } \cup { r.loadId : r \in reqs }

FreshId(used) == CHOOSE i \in 1..(Cardinality(used) + 1) :
                    i \notin used /\ \A j \in 1..(i - 1) : j \in used

\* The outcomes of one draw: a string no one holds (all such strings behave
\* alike, so one stands for them), or, since nothing but chance keeps two
\* draws apart, a string already in use.  budget is how many such repeats
\* are still explored.
makeId(used, budget) == {FreshId(used)} \cup (IF budget > 0 THEN used ELSE {})

----------------------------------------------------------------------------
(* State transforms: the updater each helper hands to setState *)

InitialState == [messages |-> <<>>,
                 conversationId |-> Undefined,
                 pendingClarificationIndex |-> Undefined]

NoResponse == Undefined

\* Mutant: the user message is put in front of the list.
addUserMessagePrepends(prev, id, content) ==
    [prev EXCEPT !.messages =
        <<[id |-> id, role |-> "user", content |-> content,
           isLoading |-> FALSE, response |-> NoResponse]>> \o @]

addUserMessage(prev, id, content) ==
    [prev EXCEPT !.messages =
        Append(@, [id |-> id, role |-> "user", content |-> content,
                   isLoading |-> FALSE, response |-> NoResponse])]

\* Mutant: the placeholder replaces the list instead of extending it.
addLoadingMessageNoSpread(prev, id) ==
    [prev EXCEPT !.messages =
        <<[id |-> id, role |-> "assistant", content |-> "",
           isLoading |-> TRUE, response |-> NoResponse]>>]

\* Mutant: the placeholder is put in front of the list.
addLoadingMessageFirst(prev, id) ==
    [prev EXCEPT !.messages =
        <<[id |-> id, role |-> "assistant", content |-> "",
           isLoading |-> TRUE, response |-> NoResponse]>> \o @]

addLoadingMessage(prev, id) ==
    [prev EXCEPT !.messages =
        Append(@, [id |-> id, role |-> "assistant", content |-> "",
                   isLoading |-> TRUE, response |-> NoResponse])]

\* Array.prototype.findIndex with the predicate sa.status === st:
\* the 0-based index of the first match, -1 when there is none.
findIndex(sas, st) ==
    IF \E i \in DOMAIN sas : sas[i].status = st
    THEN (CHOOSE i \in DOMAIN sas :
             /\ sas[i].status = st
             /\ \A j \in 1..(i - 1) : sas[j].status # st) - 1
    ELSE -1

\* Mutant: the answer of the last sub-answer instead of the first.
lastAnswer(response) ==
    IF Len(response.sub_answers) > 0
    THEN response.sub_answers[Len(response.sub_answers)].answer ELSE ""

\* response.sub_answers[0]?.answer ?? ""
firstAnswer(response) ==
    IF Len(response.sub_answers) > 0 THEN response.sub_answers[1].answer ELSE ""

\* Mutant: the answer is added to the content the message already has.
resolveMessageAccumulates(prev, id, response) ==
    [messages |->
        [i \in DOMAIN prev.messages |->
            IF prev.messages[i].id = id
            THEN [prev.messages[i] EXCEPT !.isLoading = FALSE,
                                          !.response = Some(response),
                                          !.content = @ \o firstAnswer(response)]
            ELSE prev.messages[i]],
     conversationId |-> Some(response.conversation_id),
     pendingClarificationIndex |->
        IF response.status = "clarification_required"
        THEN Some(findIndex(response.sub_answers, "clarification_required"))
        ELSE Undefined]

resolveMessage(prev, id, response) ==
    [messages |->
        [i \in DOMAIN prev.messages |->
            IF prev.messages[i].id = id
            THEN [prev.messages[i] EXCEPT !.isLoading = FALSE,
                                          !.response = Some(response),
                                          !.content = firstAnswer(response)]
            ELSE prev.messages[i]],
     conversationId |-> Some(response.conversation_id),
     pendingClarificationIndex |->
        IF response.status = "clarification_required"
        THEN Some(findIndex(response.sub_answers, "clarification_required"))
        ELSE Undefined]

\* Mutant: the placeholder keeps isLoading = true.
failMessageStillLoading(prev, id, errText) ==
    [prev EXCEPT !.messages =
        [i \in DOMAIN prev.messages |->
            IF prev.messages[i].id = id
            THEN [prev.messages[i] EXCEPT
                    !.response = Some(Response(OrElse(prev.conversationId, ""), "failure",
                                               <<SubAnswer("", "failed", errText)>>))]
            ELSE prev.messages[i]]]

\* Mutant: the synthesized response never carries the session id.
failMessageNoSession(prev, id, errText) ==
    [prev EXCEPT !.messages =
        [i \in DOMAIN prev.messages |->
            IF prev.messages[i].id = id
            THEN [prev.messages[i] EXCEPT
                    !.isLoading = FALSE,
                    !.response = Some(Response("", "failure",
                                               <<SubAnswer("", "failed", errText)>>))]
            ELSE prev.messages[i]]]

\* Mutant: the fallback id of the synthesized response is also stored as
\* the conversation id.
failMessageSetsSession(prev, id, errText) ==
    [prev EXCEPT
        !.conversationId = Some(OrElse(prev.conversationId, "")),
        !.messages =
        [i \in DOMAIN prev.messages |->
            IF prev.messages[i].id = id
            THEN [prev.messages[i] EXCEPT
                    !.isLoading = FALSE,
                    !.response = Some(Response(OrElse(prev.conversationId, ""), "failure",
                                               <<SubAnswer("", "failed", errText)>>))]
            ELSE prev.messages[i]]]

\* Mutant: when no message has the id, the failure is appended as a new
\* assistant message.
failMessageUpsert(prev, id, errText) ==
    LET failure == Some(Response(OrElse(prev.conversationId, ""), "failure",
                                 <<SubAnswer("", "failed", errText)>>))
    IN IF \E i \in DOMAIN prev.messages : prev.messages[i].id = id
       THEN [prev EXCEPT !.messages =
                [i \in DOMAIN prev.messages |->
                    IF prev.messages[i].id = id
                    THEN [prev.messages[i] EXCEPT !.isLoading = FALSE,
                                                  !.response = failure]
                    ELSE prev.messages[i]]]
       ELSE [prev EXCEPT !.messages =
                Append(@, [id |-> id, role |-> "assistant", content |-> "",
                           isLoading |-> FALSE, response |-> failure])]

\* Mutant: a failure also drops the pending clarification.
failMessageClearsPending(prev, id, errText) ==
    [prev EXCEPT
        !.pendingClarificationIndex = Undefined,
        !.messages =
        [i \in DOMAIN prev.messages |->
            IF prev.messages[i].id = id
            THEN [prev.messages[i] EXCEPT
                    !.isLoading = FALSE,
                    !.response = Some(Response(OrElse(prev.conversationId, ""), "failure",
                                               <<SubAnswer("", "failed", errText)>>))]
            ELSE prev.messages[i]]]

failMessage(prev, id, errText) ==
    [prev EXCEPT !.messages =
        [i \in DOMAIN prev.messages |->
            IF prev.messages[i].id = id
            THEN [prev.messages[i] EXCEPT
                    !.isLoading = FALSE,
                    !.response = Some(Response(OrElse(prev.conversationId, ""), "failure",
                                               <<SubAnswer("", "failed", errText)>>))]
            ELSE prev.messages[i]]]

\* e instanceof Error ? e.message : "Unknown error"
errorMessage(e) == IF e.isError THEN e.message ELSE "Unknown error"

hasPendingClarification == state.pendingClarificationIndex # Undefined

----------------------------------------------------------------------------
(* Requests.  call numbers the dispatches in the order they were made.  The
   conversationId, pdfPath and subAnswerIndex arguments are passed as the hook
   holds them, as optional values. *)

\* Mutant: the request is sent without the conversation id.
QueryRequestNoSession(n, loadId, prompt, cid, pdfPath) ==
    [op |-> "sendQuery", call |-> n, loadId |-> loadId,
     prompt |-> prompt, conversationId |-> Undefined, pdfPath |-> pdfPath]

QueryRequest(n, loadId, prompt, cid, pdfPath) ==
    [op |-> "sendQuery", call |-> n, loadId |-> loadId,
     prompt |-> prompt, conversationId |-> cid, pdfPath |-> pdfPath]

ClarificationRequest(n, loadId, cid, idx, answer) ==
    [op |-> "sendClarification", call |-> n, loadId |-> loadId,
     conversationId |-> cid, subAnswerIndex |-> idx, answer |-> answer]

----------------------------------------------------------------------------
(* Actions *)

Init ==
    /\ state = InitialState
    /\ loading = FALSE
    /\ error = Null
    /\ inflight = {}
    /\ calls = 0
    /\ collisions = 0
    /\ lastResolved = Undefined
    /\ lastOp = "init"
    /\ returned = <<>>

\* Mutant: a query is admitted only while no call is loading.
startQueryWhenIdle(prompt, pdfPath, name) ==
    /\ calls < MaxCalls
    /\ ~loading
    /\ \E id \in makeId(IdsInUse(state, inflight), MaxCollisions - collisions) :
         LET s1 == addUserMessage(state, id, prompt)
             c1 == IF id \in IdsInUse(state, inflight) THEN 1 ELSE 0
         IN \E loadId \in makeId(IdsInUse(s1, inflight), MaxCollisions - collisions - c1) :
              LET c2 == IF loadId \in IdsInUse(s1, inflight) THEN 1 ELSE 0
              IN /\ error' = Null
                 /\ state' = addLoadingMessage(s1, loadId)
                 /\ loading' = TRUE
                 /\ inflight' = inflight \cup
                       {QueryRequest(calls + 1, loadId, prompt, state.conversationId, pdfPath)}
                 /\ calls' = calls + 1
                 /\ collisions' = collisions + c1 + c2
                 /\ lastOp' = name
                 /\ returned' = Append(returned, "pending")
                 /\ UNCHANGED lastResolved

\* The synchronous part of submitQuery, up to the await.
startQuery(prompt, pdfPath, name) ==
    /\ calls < MaxCalls
    /\ \E id \in makeId(IdsInUse(state, inflight), MaxCollisions - collisions) :
         LET s1 == addUserMessage(state, id, prompt)
             c1 == IF id \in IdsInUse(state, inflight) THEN 1 ELSE 0
         IN \E loadId \in makeId(IdsInUse(s1, inflight), MaxCollisions - collisions - c1) :
              LET c2 == IF loadId \in IdsInUse(s1, inflight) THEN 1 ELSE 0
              IN /\ error' = Null
                 /\ state' = addLoadingMessage(s1, loadId)
                 /\ loading' = TRUE
                 /\ inflight' = inflight \cup
                       {QueryRequest(calls + 1, loadId, prompt, state.conversationId, pdfPath)}
                 /\ calls' = calls + 1
                 /\ collisions' = collisions + c1 + c2
                 /\ lastOp' = name
                 /\ returned' = Append(returned, "pending")
                 /\ UNCHANGED lastResolved

SubmitQuery(prompt, pdfPath) == startQuery(prompt, pdfPath, "submitQuery")

\* Mutant: the guard tests the conversation id alone.
clarificationGuardIdOnly(st) == ~Truthy(st.conversationId)

\* if (!state.conversationId || state.pendingClarificationIndex === undefined) return;
clarificationGuard(st) ==
    ~Truthy(st.conversationId) \/ st.pendingClarificationIndex = Undefined

\* submitClarification: the guard, then the synchronous part up to the await.
SubmitClarification(answer) ==
    IF clarificationGuard(state)
    THEN /\ lastOp' = "submitClarification"
         /\ UNCHANGED <<state, loading, error, inflight, calls, collisions, lastResolved,
                        returned>>
    ELSE
    /\ calls < MaxCalls
    /\ \E id \in makeId(IdsInUse(state, inflight), MaxCollisions - collisions) :
         LET s1 == addUserMessage(state, id, "Clarification: " \o answer)
             c1 == IF id \in IdsInUse(state, inflight) THEN 1 ELSE 0
         IN \E loadId \in makeId(IdsInUse(s1, inflight), MaxCollisions - collisions - c1) :
              LET c2 == IF loadId \in IdsInUse(s1, inflight) THEN 1 ELSE 0
              IN /\ error' = Null
                 /\ state' = addLoadingMessage(s1, loadId)
                 /\ loading' = TRUE
                 /\ inflight' = inflight \cup
                       {ClarificationRequest(calls + 1, loadId, state.conversationId,
                                             state.pendingClarificationIndex, answer)}
                 /\ calls' = calls + 1
                 /\ collisions' = collisions + c1 + c2
                 /\ lastOp' = "submitClarification"
                 /\ returned' = Append(returned, "pending")
                 /\ UNCHANGED lastResolved

\* Mutant: the search runs oldest first, without the reverse().
firstUser(messages) ==
    LET users == { i \in DOMAIN messages : messages[i].role = "user" }
    IN IF users = {} THEN Undefined
       ELSE Some(messages[CHOOSE i \in users : \A j \in users : i <= j])

\* [...state.messages].reverse().find((m) => m.role === "user")
lastUser(messages) ==
    LET users == { i \in DOMAIN messages : messages[i].role = "user" }
    IN IF users = {} THEN Undefined
       ELSE Some(messages[CHOOSE i \in users : \A j \in users : j <= i])

\* Mutant: the last error is cleared before the search for a user message.
RetryLastClearsError ==
    IF lastUser(state.messages) = Undefined
    THEN /\ lastOp' = "retryLast"
         /\ error' = Null
         /\ UNCHANGED <<state, loading, inflight, calls, collisions, lastResolved, returned>>
    ELSE startQuery(lastUser(state.messages)[1].content, Undefined, "retryLast")

RetryLast ==
    IF lastUser(state.messages) = Undefined
    THEN /\ lastOp' = "retryLast"
         /\ UNCHANGED <<state, loading, error, inflight, calls, collisions, lastResolved,
                        returned>>
    ELSE startQuery(lastUser(state.messages)[1].content, Undefined, "retryLast")

\* Mutant: only the message list is emptied, the session pointers survive.
ClearChatKeepsSession ==
    /\ state' = [state EXCEPT !.messages = <<>>]
    /\ error' = Null
    /\ lastResolved' = Undefined
    /\ lastOp' = "clearChat"
    /\ UNCHANGED <<loading, inflight, calls, collisions, returned>>

\* Mutant: the conversation is reset, the last error is left as it was.
ClearChatKeepsError ==
    /\ state' = InitialState
    /\ lastResolved' = Undefined
    /\ lastOp' = "clearChat"
    /\ UNCHANGED <<loading, error, inflight, calls, collisions, returned>>

ClearChat ==
    /\ state' = InitialState
    /\ error' = Null
    /\ lastResolved' = Undefined
    /\ lastOp' = "clearChat"
    /\ UNCHANGED <<loading, inflight, calls, collisions, returned>>

\* Mutant: a response of status failure is also stored as the last error.
FulfilledFailureSetsError(r, response) ==
    /\ r \in inflight
    /\ state' = resolveMessage(state, r.loadId, response)
    /\ error' = IF response.status = "failure" THEN Some("Pipeline failed") ELSE error
    /\ loading' = FALSE
    /\ inflight' = inflight \ {r}
    /\ lastResolved' = Some(response)
    /\ lastOp' = "fulfilled"
    /\ returned' = [returned EXCEPT ![r.call] = "fulfilled"]
    /\ UNCHANGED <<calls, collisions>>

\* The awaited promise fulfils: the try branch, then finally.
Fulfilled(r, response) ==
    /\ r \in inflight
    /\ state' = resolveMessage(state, r.loadId, response)
    /\ loading' = FALSE
    /\ inflight' = inflight \ {r}
    /\ lastResolved' = Some(response)
    /\ lastOp' = "fulfilled"
    /\ returned' = [returned EXCEPT ![r.call] = "fulfilled"]
    /\ UNCHANGED <<error, calls, collisions>>

\* Mutant: the catch branch ends the call, no finally resets loading.
RejectedKeepsLoading(r, e) ==
    /\ r \in inflight
    /\ error' = Some(errorMessage(e))
    /\ state' = failMessage(state, r.loadId, errorMessage(e))
    /\ inflight' = inflight \ {r}
    /\ lastOp' = "rejected"
    /\ returned' = [returned EXCEPT ![r.call] = "fulfilled"]
    /\ UNCHANGED <<loading, calls, collisions, lastResolved>>

\* Mutant: the catch branch does its work and throws the error on.
RejectedRethrows(r, e) ==
    /\ r \in inflight
    /\ error' = Some(errorMessage(e))
    /\ state' = failMessage(state, r.loadId, errorMessage(e))
    /\ loading' = FALSE
    /\ inflight' = inflight \ {r}
    /\ lastOp' = "rejected"
    /\ returned' = [returned EXCEPT ![r.call] = "rejected"]
    /\ UNCHANGED <<calls, collisions, lastResolved>>

\* The awaited promise rejects: the catch branch, then finally.
Rejected(r, e) ==
    /\ r \in inflight
    /\ error' = Some(errorMessage(e))
    /\ state' = failMessage(state, r.loadId, errorMessage(e))
    /\ loading' = FALSE
    /\ inflight' = inflight \ {r}
    /\ lastOp' = "rejected"
    /\ returned' = [returned EXCEPT ![r.call] = "fulfilled"]
    /\ UNCHANGED <<calls, collisions, lastResolved>>

Next ==
    \/ \E prompt \in Prompts, pdfPath \in PdfPaths : SubmitQuery(prompt, pdfPath)
    \/ \E answer \in Answers : SubmitClarification(answer)
    \/ RetryLast
    \/ ClearChat
    \/ \E r \in inflight, response \in Responses : Fulfilled(r, response)
    \/ \E r \in inflight, e \in Rejections : Rejected(r, e)

Spec == Init /\ [][Next]_vars

\* A prompt of an earlier turn, other than the ones submitted next.
EarlierPrompt == "Compare revenue and margin"

\* The state submitQuery(EarlierPrompt) leaves at its await.
TurnStart == addLoadingMessage(addUserMessage(InitialState, 1, EarlierPrompt), 2)

\* The hook after one completed turn: submitQuery(EarlierPrompt) ran to its
\* end, on a response or on a rejection.
TurnInit ==
    /\ \/ \E response \in Responses :
            /\ state = resolveMessage(TurnStart, 2, response)
            /\ error = Null
            /\ lastResolved = Some(response)
            /\ lastOp = "fulfilled"
       \/ \E e \in Rejections :
            /\ state = failMessage(TurnStart, 2, errorMessage(e))
            /\ error = Some(errorMessage(e))
            /\ lastResolved = Undefined
            /\ lastOp = "rejected"
    /\ loading = FALSE
    /\ inflight = {}
    /\ calls = 0
    /\ collisions = 0
    /\ returned = <<>>

\* The conversation from its second turn on.
TurnSpec == TurnInit /\ [][Next]_vars

\* The request numbered n settles, either way.
Settle(n) ==
    \E r \in inflight :
        /\ r.call = n
        /\ \/ \E response \in Responses : Fulfilled(r, response)
           \/ \E e \in Rejections : Rejected(r, e)

\* Every dispatched request eventually returns or rejects.
LiveSpec == Spec /\ \A n \in 1..MaxCalls : WF_vars(Settle(n))

----------------------------------------------------------------------------
(* Helpers of the properties *)

msgs == state.messages

HasId(id) == \E i \in DOMAIN msgs : msgs[i].id = id

IsLoadingAt(p) == p \in DOMAIN msgs /\ msgs[p].isLoading

\* In a completion step, the request that settled.
settled == CHOOSE q \in inflight : q \notin inflight'

FailureResponse(cid, text) ==
    [conversation_id |-> cid, status |-> "failure",
     sub_answers |-> <<[query |-> "", status |-> "failed",
                        answer |-> text, citations |-> <<>>]>>]

----------------------------------------------------------------------------
(* C1: every submitQuery call lengthens messages by exactly 2, a user
   message followed by an assistant message, and the later completion of a
   call, by a response or by a rejection, leaves the length as it is. *)
C1_SubmitQueryAddsTwo ==
    [][ /\ lastOp' = "submitQuery" =>
             /\ Len(state'.messages) = Len(msgs) + 2
             /\ SubSeq(state'.messages, 1, Len(msgs)) = msgs
             /\ state'.messages[Len(msgs) + 1].role = "user"
             /\ state'.messages[Len(msgs) + 2].role = "assistant"
        /\ lastOp' \in {"fulfilled", "rejected"} =>
             Len(state'.messages) = Len(msgs) ]_vars

\* Two calls were made, one ended in a response and the other in a rejection.
C1_Witness ==
    /\ Len(msgs) = 4 /\ inflight = {} /\ calls = 2
    /\ msgs[1].content \in Prompts /\ msgs[3].content \in Prompts
    /\ msgs[2].response # NoResponse /\ msgs[2].response[1].status = "answered"
    /\ msgs[4].response # NoResponse /\ msgs[4].response[1].status = "failure"
    /\ lastOp = "rejected"

(* C2: a response that arrives for a placeholder whose id is no longer in
   messages, as after clearChat, leaves messages, conversationId and
   pendingClarificationIndex as they were.  Stated for the runs in which
   every makeId draw was new, so that the id is absent because of the clear. *)
C2_LateResolveIsNoOp ==
    [][ (lastOp' = "fulfilled" /\ ~HasId(settled.loadId) /\ collisions = 0)
        => state' = state ]_vars

(* C3: pendingClarificationIndex is defined exactly when the most recently
   resolved response has status clarification_required and holds a
   sub-answer with that status, and it is then the index of the first one.
   Stated for the runs in which every makeId draw was new. *)
C3_PendingIffClarification ==
    LET asks == /\ lastResolved # Undefined
                /\ lastResolved[1].status = "clarification_required"
                /\ \E i \in DOMAIN lastResolved[1].sub_answers :
                      lastResolved[1].sub_answers[i].status = "clarification_required"
    IN collisions = 0 =>
       /\ (state.pendingClarificationIndex # Undefined) <=> asks
       /\ asks =>
            LET sas == lastResolved[1].sub_answers
                k == state.pendingClarificationIndex[1] + 1
            IN /\ k \in DOMAIN sas
               /\ sas[k].status = "clarification_required"
               /\ \A j \in 1..(k - 1) : sas[j].status # "clarification_required"

(* C4: clearChat, in whatever state it is called, leaves messages empty,
   conversationId and pendingClarificationIndex undefined and the last
   error null. *)
C4_ClearChatResets ==
    [][ lastOp' = "clearChat" =>
          /\ state'.messages = <<>>
          /\ state'.conversationId = Undefined
          /\ state'.pendingClarificationIndex = Undefined
          /\ error' = Null ]_vars

\* clearChat ran on a session that had an id, while a request was in flight.
C4_Witness ==
    /\ lastOp = "clearChat" /\ inflight # {} /\ calls = 2
    /\ msgs = <<>> /\ state.conversationId = Undefined /\ error = Null

(* C5: with conversationId or pendingClarificationIndex undefined,
   submitClarification changes nothing and sends nothing. *)
C5_GuardedClarificationIsNoOp ==
    [][ ( /\ lastOp' = "submitClarification"
          /\ \/ state.conversationId = Undefined
             \/ state.pendingClarificationIndex = Undefined )
        => UNCHANGED <<state, loading, error, inflight, calls>> ]_vars

\* submitClarification ran in a session that has an id and no pending index.
C5_Witness ==
    /\ lastOp = "submitClarification"
    /\ state.conversationId # Undefined
    /\ state.pendingClarificationIndex = Undefined
    /\ Len(msgs) = 2 /\ inflight = {} /\ calls = 1

(* C6: provided every dispatched request eventually returns or rejects, no
   message stays with isLoading = true forever: a position of messages that
   holds a loading placeholder later holds none (the placeholder reached a
   terminal state, or left messages by a clear). *)
C6_NoPlaceholderLoadsForever ==
    \A p \in 1..(2 * MaxCalls) : IsLoadingAt(p) ~> ~IsLoadingAt(p)

\* Both placeholders of two calls reached a terminal state, one each way.
C6_Witness ==
    /\ Len(msgs) = 4 /\ inflight = {}
    /\ \A p \in DOMAIN msgs : ~msgs[p].isLoading
    /\ msgs[2].response # NoResponse /\ msgs[2].response[1].status = "failure"
    /\ msgs[4].response # NoResponse /\ msgs[4].response[1].status = "partial"

(* C7: with several requests in flight, the completion of one of them, by a
   response or by a rejection, changes at most one message, and that message
   is a loading assistant placeholder carrying the id of the request; every
   other message, the loading placeholders of the other requests included,
   is left as it was. *)
C7_CompletionTouchesOwnPlaceholderOnly ==
    [][ (lastOp' \in {"fulfilled", "rejected"} /\ Cardinality(inflight) >= 2) =>
          LET r == settled
              changed == { i \in DOMAIN msgs : state'.messages[i] # msgs[i] }
          IN /\ DOMAIN state'.messages = DOMAIN msgs
             /\ Cardinality(changed) <= 1
             /\ \A i \in changed : /\ msgs[i].id = r.loadId
                                    /\ msgs[i].role = "assistant"
                                    /\ msgs[i].isLoading ]_vars

(* C8: fail(id, text) on a message that exists leaves it with isLoading =
   false and the response {conversation_id: the session's conversationId at
   that moment or "", status: failure, sub_answers: [{query: "", status:
   failed, citations: [], answer: text}]}. *)
C8_FailSynthesizesFailure ==
    [][ lastOp' = "rejected" =>
            \A i \in DOMAIN msgs :
              msgs[i].id = settled.loadId =>
                /\ state'.messages[i].isLoading = FALSE
                /\ state'.messages[i].response =
                     Some(FailureResponse(
                            IF state.conversationId = Undefined THEN ""
                            ELSE state.conversationId[1],
                            error'[1])) ]_vars

\* A rejection reached its placeholder in a session that had an id.
C8_Witness ==
    /\ lastOp = "rejected" /\ Len(msgs) = 4
    /\ state.conversationId = Some("c2")
    /\ msgs[4].isLoading = FALSE
    /\ msgs[4].response = Some(FailureResponse("c2", "timeout"))

(* C9: when the sendQuery of a submitQuery call rejects with error text t
   (the message the rejection carries, or "Unknown error" when it carries
   none), then after the call completes its placeholder has isLoading =
   false and a failure response with the single sub-answer {status: failed,
   answer: t}, loading is false and the last error is t.  Runs in which
   makeId repeated an id are left aside. *)
C9_RejectedQuery ==
    [][ \A e \in Rejections :
          (/\ lastOp' = "rejected" /\ settled.op = "sendQuery"
           /\ Rejected(settled, e)
           /\ collisions = 0) =>
            LET t == IF e.message # "" THEN e.message ELSE "Unknown error"
            IN /\ loading' = FALSE
               /\ error' = Some(t)
               /\ \A i \in DOMAIN msgs :
                    msgs[i].id = settled.loadId =>
                      /\ state'.messages[i].isLoading = FALSE
                      /\ state'.messages[i].response # NoResponse
                      /\ LET resp == state'.messages[i].response[1]
                         IN /\ resp.status = "failure"
                            /\ Len(resp.sub_answers) = 1
                            /\ resp.sub_answers[1].status = "failed"
                            /\ resp.sub_answers[1].answer = t ]_vars

(* C10: resolve(id, response) on a message that exists sets its isLoading
   to false, attaches response, and sets its content to
   response.sub_answers[0].answer when sub_answers is non-empty and to ""
   when it is empty; the id, the role and the position stay. *)
C10_ResolveSetsContent ==
    [][ lastOp' = "fulfilled" =>
          LET response == lastResolved'[1]
          IN
            /\ Len(state'.messages) = Len(msgs)
            /\ \A i \in DOMAIN msgs :
                 msgs[i].id = settled.loadId =>
                   /\ state'.messages[i].isLoading = FALSE
                   /\ state'.messages[i].response = Some(response)
                   /\ state'.messages[i].content =
                        (IF response.sub_answers = <<>> THEN ""
                         ELSE response.sub_answers[1].answer)
                   /\ state'.messages[i].id = msgs[i].id
                   /\ state'.messages[i].role = msgs[i].role ]_vars

\* One placeholder took the first of two answers, another fell back to "".
C10_Witness ==
    /\ Len(msgs) = 4 /\ lastOp = "fulfilled"
    /\ msgs[2].response = Some(Response("c2", "partial", <<saFailed, saAnswered>>))
    /\ msgs[2].content = "no context"
    /\ msgs[4].response = Some(Response("c1", "failure", <<>>))
    /\ msgs[4].content = "" /\ msgs[4].isLoading = FALSE
    /\ msgs[4].role = "assistant"

\* A submitClarification step went through: the two messages were appended
\* and one sendClarification request, carrying the values held before the
\* step, joined the requests in flight.
ClarificationDispatched ==
    \E answer \in Answers :
        /\ Len(state'.messages) = Len(msgs) + 2
        /\ SubSeq(state'.messages, 1, Len(msgs)) = msgs
        /\ LET u == state'.messages[Len(msgs) + 1]
               a == state'.messages[Len(msgs) + 2]
           IN /\ u.role = "user" /\ u.content = "Clarification: " \o answer
              /\ a.role = "assistant" /\ a.content = "" /\ a.isLoading
              /\ a.response = NoResponse
              /\ inflight \subseteq inflight'
              /\ Cardinality(inflight' \ inflight) = 1
              /\ \A r \in inflight' \ inflight :
                   /\ r.op = "sendClarification"
                   /\ r.conversationId = state.conversationId
                   /\ r.subAnswerIndex = state.pendingClarificationIndex
                   /\ r.answer = answer
                   /\ r.loadId = a.id

(* C11: when conversationId and pendingClarificationIndex are
   both defined, submitClarification(answer) appends the user message
   "Clarification: " + answer and a loading placeholder and issues exactly
   one sendClarification(conversationId, pendingClarificationIndex, answer).
   Runs in which makeId repeated an id are left aside. *)
C11_DefinedMeansDispatched ==
    [][ (/\ lastOp' = "submitClarification"
         /\ state.conversationId # Undefined
         /\ state.pendingClarificationIndex # Undefined
         /\ collisions = 0)
        => ClarificationDispatched ]_vars

(* C12: for one resolved response that requires clarification at most one
   sendClarification is dispatched: a further submitClarification made while
   that request is still in flight dispatches nothing.  The premise
   Cardinality(inflight) = calls says that no request dispatched since the
   response was resolved has settled, so the pending clarification is still
   the one of that response. *)
C12_SingleClarificationPerTurn ==
    [][ (/\ lastOp' = "submitClarification"
         /\ \E r \in inflight : r.op = "sendClarification"
         /\ Cardinality(inflight) = calls
         /\ collisions = 0)
        => inflight' = inflight ]_vars

(* C13: with several calls in flight, loading stays true until the most
   recently started call has completed; the completion of an earlier call
   does not set it to false.  The most recently started call is the one
   numbered calls. *)
C13_LoadingFollowsLatestCall ==
    (\E r \in inflight : r.call = calls) => loading = TRUE

(* C14: every submitQuery and every submitClarification that passes its
   guard sets loading to true when it starts, and the completion of a call,
   by a response or by a rejection, sets it to false; so in every reachable
   state with no request in flight loading is false. *)
C14_LoadingBracketsCalls ==
    /\ [](inflight = {} => loading = FALSE)
    /\ [][ /\ lastOp' = "submitQuery" => loading' = TRUE
           /\ (/\ lastOp' = "submitClarification"
               /\ state.conversationId \notin {Undefined, Some("")}
               /\ state.pendingClarificationIndex # Undefined) => loading' = TRUE
           /\ lastOp' \in {"fulfilled", "rejected"} => loading' = FALSE ]_vars

\* A query succeeded, the clarification that followed was rejected, and
\* nothing is in flight any more.
C14_Witness ==
    /\ lastOp = "rejected" /\ inflight = {} /\ calls = 2 /\ loading = FALSE
    /\ Len(msgs) = 4
    /\ msgs[2].response # NoResponse /\ msgs[2].response[1].status = "clarification_required"
    /\ msgs[3].content = "Clarification: yearly revenue"
    /\ msgs[4].response # NoResponse /\ msgs[4].response[1].status = "failure"

\* The texts a transport failure can leave as the last error.
ErrorTexts ==
    { e.message : e \in { x \in Rejections : x.isError } } \cup {"Unknown error"}

(* C15: the last error is set to null at the start of each new action
   (submitQuery, a submitClarification that passes its guard, a retryLast
   that finds a user message, clearChat), is set to the error text when a
   call is rejected, and is changed by nothing else; so a non-null last
   error is the text of a call that failed after the most recent action
   started. *)
C15_ErrorClearedOnStart ==
    /\ [](error # Null => /\ lastOp \notin {"init", "submitQuery", "clearChat"}
                          /\ error[1] \in ErrorTexts)
    /\ [][ /\ lastOp' \in {"submitQuery", "clearChat"} => error' = Null
           /\ (/\ lastOp' = "submitClarification"
               /\ state.conversationId \notin {Undefined, Some("")}
               /\ state.pendingClarificationIndex # Undefined) => error' = Null
           /\ (/\ lastOp' = "retryLast"
               /\ \E i \in DOMAIN msgs : msgs[i].role = "user") => error' = Null
           /\ lastOp' = "rejected" => error' # Null /\ error'[1] \in ErrorTexts
           /\ (error' # error /\ error' # Null) => lastOp' = "rejected" ]_vars

\* The chat was cleared while a call was pending, and the call then failed:
\* the error is the one of the failure that followed the clearing.
C15_Witness ==
    /\ lastOp = "rejected" /\ msgs = <<>> /\ error = Some("Unknown error")
    /\ calls = 2 /\ inflight # {}

(* C16: no transport error escapes the hook: whether sendQuery or
   sendClarification returns a response or rejects, the promise of the
   submitQuery, submitClarification or retryLast call that awaited it is
   fulfilled, never rejected. *)
C16_NoErrorEscapes ==
    /\ [](\A n \in DOMAIN returned : returned[n] \in {"pending", "fulfilled"})
    /\ [][ lastOp' \in {"fulfilled", "rejected"}
           => returned'[settled.call] = "fulfilled" ]_vars

\* A query got its response, the clarification that followed was rejected
\* with a non-Error value, and both calls returned normally.
C16_Witness ==
    /\ returned = <<"fulfilled", "fulfilled">> /\ lastOp = "rejected"
    /\ error = Some("Unknown error")
    /\ Len(msgs) = 4 /\ msgs[3].content = "Clarification: yearly revenue"
    /\ msgs[4].response # NoResponse /\ msgs[4].response[1].status = "failure"

\* A step appended a user message with the given content and a loading
\* placeholder, left every earlier message as it was, and dispatched one
\* sendQuery whose prompt is that content.
QueryDispatched(content) ==
    /\ Len(state'.messages) = Len(msgs) + 2
    /\ SubSeq(state'.messages, 1, Len(msgs)) = msgs
    /\ LET u == state'.messages[Len(msgs) + 1]
           a == state'.messages[Len(msgs) + 2]
       IN /\ u.role = "user" /\ u.content = content
          /\ a.role = "assistant" /\ a.content = "" /\ a.isLoading
          /\ a.response = NoResponse
          /\ inflight \subseteq inflight'
          /\ Cardinality(inflight' \ inflight) = 1
          /\ \A r \in inflight' \ inflight :
               r.op = "sendQuery" /\ r.prompt = content /\ r.loadId = a.id

(* C17: retryLast takes the most recent message of role user and runs
   submitQuery with exactly its content: a new user/assistant pair is
   appended at the end, one sendQuery with that prompt is dispatched, and
   every message held before the call, the replayed one included, is
   unchanged. *)
C17_RetryReplaysLastUser ==
    [][ lastOp' = "retryLast" =>
          \A k \in DOMAIN msgs :
             (/\ msgs[k].role = "user"
              /\ \A j \in DOMAIN msgs : j > k => msgs[j].role # "user")
             => QueryDispatched(msgs[k].content) ]_vars

\* The second turn was a clarification and retryLast replayed its text, not
\* the prompt of the first turn.
C17_Witness ==
    /\ lastOp = "retryLast" /\ Len(msgs) = 6
    /\ msgs[1].content = EarlierPrompt
    /\ msgs[3].content = "Clarification: yearly revenue"
    /\ msgs[5].content = "Clarification: yearly revenue" /\ msgs[5].role = "user"
    /\ msgs[6].isLoading
    /\ \E r \in inflight : r.op = "sendQuery" /\ r.prompt = msgs[3].content

\* QueryBlock, for an assistant message: onRetry (= retryLast) goes to the
\* FailureCard, rendered when the response has status failure and no
\* sub-answers, and to the SubAnswerCard of every sub-answer whose status is
\* not clarification_required (those get a ClarificationBox, without
\* onRetry), whatever the status of the response.
retryOffered(message) ==
    /\ message.role = "assistant"
    /\ message.response # NoResponse
    /\ LET response == message.response[1]
       IN \/ response.status = "failure" /\ Len(response.sub_answers) = 0
          \/ \E i \in DOMAIN response.sub_answers :
                response.sub_answers[i].status # "clarification_required"

\* The turn failed, as a whole or in one of its sub-answers.
failedTurn(message) ==
    /\ message.response # NoResponse
    /\ \/ message.response[1].status = "failure"
       \/ \E i \in DOMAIN message.response[1].sub_answers :
             message.response[1].sub_answers[i].status = "failed"

(* C18: when retry is offered on a failed turn, the sendQuery that retryLast
   dispatches has as its prompt the content of the user message paired with
   the failed assistant message, that is, the message right before it.
   Runs in which makeId repeated an id are left aside. *)
C18_RetryReplaysFailedTurn ==
    [][ (lastOp' = "retryLast" /\ collisions = 0) =>
          \A i \in DOMAIN msgs :
             (i > 1 /\ retryOffered(msgs[i]) /\ failedTurn(msgs[i])) =>
                \A r \in inflight' \ inflight :
                   r.op = "sendQuery" /\ r.prompt = msgs[i - 1].content ]_vars

(* C19: when messages holds no message of role user, retryLast is a no-op:
   no message is appended, no request is issued, and loading and the last
   error are unchanged. *)
C19_RetryWithoutUserIsNoOp ==
    [][ (/\ lastOp' = "retryLast"
         /\ \A i \in DOMAIN msgs : msgs[i].role # "user")
        => UNCHANGED <<state, loading, error, inflight, calls, returned>> ]_vars

\* retryLast ran on a cleared chat that still showed the error of a call
\* rejected after the clearing, with another call pending.
C19_Witness ==
    /\ lastOp = "retryLast" /\ msgs = <<>>
    /\ error = Some("timeout") /\ inflight # {} /\ calls = 2

(* C20: conversationId is never invented by the hook: it is undefined or the
   conversation_id of a response the Query API returned.  It changes only
   when a response is resolved, to the conversation_id of that response, and
   when the chat is cleared, to undefined; no submit, retry or fail step
   assigns it. *)
C20_ConversationIdFromServer ==
    /\ [](\/ state.conversationId = Undefined
          \/ \E response \in Responses :
                state.conversationId = Some(response.conversation_id))
    /\ [][ /\ lastOp' \in {"submitQuery", "submitClarification", "retryLast", "rejected"}
              => state'.conversationId = state.conversationId
           /\ lastOp' = "clearChat" => state'.conversationId = Undefined
           /\ lastOp' = "fulfilled"
              => state'.conversationId = Some(lastResolved'[1].conversation_id) ]_vars

\* A call was rejected in a conversation that holds a server id: the id
\* stayed, and the synthesized failure carries it.
C20_Witness ==
    /\ lastOp = "rejected" /\ state.conversationId = Some("c2")
    /\ Len(msgs) = 4
    /\ msgs[4].response # NoResponse
    /\ msgs[4].response[1].status = "failure"
    /\ msgs[4].response[1].conversation_id = "c2"

(* C21: once conversationId is set it persists until clearChat: no action
   and no request completion other than clearChat unsets it or replaces it
   with another value.  Runs in which makeId repeated an id are left
   aside. *)
C21_ConversationIdPersists ==
    [][ (/\ state.conversationId # Undefined
         /\ lastOp' # "clearChat"
         /\ collisions = 0)
        => state'.conversationId = state.conversationId ]_vars

(* C22: messages is append-only in causal order: in every step other than
   clearChat the sequence of message ids before the step is a prefix of the
   sequence after it; nothing is removed, reordered or inserted anywhere
   but at the end. *)
C22_MessagesAppendOnly ==
    [][ lastOp' # "clearChat" =>
          /\ Len(state'.messages) >= Len(msgs)
          /\ \A i \in DOMAIN msgs : state'.messages[i].id = msgs[i].id ]_vars

\* Two turns were appended in order; the first was resolved in place while
\* the second is still loading.
C22_Witness ==
    /\ lastOp = "fulfilled" /\ Len(msgs) = 4
    /\ [i \in 1..4 |-> msgs[i].id] = <<1, 2, 3, 4>>
    /\ [i \in 1..4 |-> msgs[i].role] = <<"user", "assistant", "user", "assistant">>
    /\ msgs[2].response # NoResponse /\ msgs[4].isLoading

(* C23: resolve(id, r) is idempotent: applied again, with the same id and
   the same response, to the state its first application produced, it
   yields that same state (content, isLoading, response, conversationId and
   pendingClarificationIndex). *)
C23_ResolveIdempotent ==
    [][ lastOp' = "fulfilled" =>
          resolveMessage(state', settled.loadId, lastResolved'[1]) = state' ]_vars

\* A placeholder was resolved with a two-part answer that asks for a
\* clarification on its second part.
C23_Witness ==
    /\ lastOp = "fulfilled" /\ Len(msgs) = 2
    /\ msgs[2].content = saAnswered.answer /\ msgs[2].isLoading = FALSE
    /\ msgs[2].response = lastResolved
    /\ state.conversationId = Some("c1")
    /\ state.pendingClarificationIndex = Some(1)

(* C24: fail(id, errorText) with an id that no message carries, as after a
   clearChat, leaves the conversation state as it was: messages,
   conversationId and pendingClarificationIndex are unchanged. *)
C24_LateFailIsNoOp ==
    [][ (lastOp' = "rejected" /\ ~HasId(settled.loadId)) => state' = state ]_vars

\* Two calls were pending when the chat was cleared; the first then
\* resolved asking for a clarification and the second was rejected.
C24_Witness ==
    /\ lastOp = "rejected" /\ msgs = <<>> /\ inflight = {} /\ calls = 2
    /\ state.conversationId = Some("c1")
    /\ state.pendingClarificationIndex = Some(0)
    /\ error # Null

(* C25: when a resolved response has status clarification_required but
   none of its sub-answers has that status, pendingClarificationIndex is
   left undefined and hasPendingClarification is false. *)
C25_NoMatchLeavesUndefined ==
    (/\ lastOp = "fulfilled"
     /\ lastResolved # Undefined
     /\ lastResolved[1].status = "clarification_required"
     /\ \A i \in DOMAIN lastResolved[1].sub_answers :
           lastResolved[1].sub_answers[i].status # "clarification_required")
    => /\ state.pendingClarificationIndex = Undefined
       /\ ~hasPendingClarification

(* C26: submitQuery dispatches sendQuery with exactly the prompt it was
   given, the conversationId the state holds when it is invoked, and the
   given pdfPath; so a query submitted after a response was resolved
   carries that response's conversation_id. *)
C26_SendQueryArguments ==
    [][ lastOp' = "submitQuery" =>
          \E prompt \in Prompts, pdfPath \in PdfPaths :
             /\ QueryDispatched(prompt)
             /\ \A r \in inflight' \ inflight :
                  /\ r.conversationId = state.conversationId
                  /\ r.pdfPath = pdfPath ]_vars

\* The second query of a conversation is in flight with the id the first
\* response brought.
C26_Witness ==
    /\ lastOp = "submitQuery" /\ Len(msgs) = 4
    /\ msgs[2].response # NoResponse
    /\ msgs[2].response[1].conversation_id = "c2"
    /\ \E r \in inflight :
         /\ r.op = "sendQuery" /\ r.call = 2 /\ r.prompt = "What is HyDE?"
         /\ r.conversationId = Some("c2") /\ r.pdfPath = Some("paper.pdf")

(* C27: submitQuery has no admission guard: in every reachable state, also
   with loading = true and with a clarification pending, a submitQuery call
   can be made, and it appends its user/placeholder pair and dispatches
   sendQuery; so two placeholders can be loading at once.  (calls <
   MaxCalls is the bound of the exploration.) *)
C27_NoAdmissionGuard ==
    /\ [](calls < MaxCalls =>
            ENABLED (\E prompt \in Prompts, pdfPath \in PdfPaths :
                        SubmitQuery(prompt, pdfPath)))
    /\ [][ (lastOp' = "submitQuery" /\ (loading \/ hasPendingClarification))
           => \E prompt \in Prompts : QueryDispatched(prompt) ]_vars

\* A second query was submitted while the first was loading: two
\* placeholders are loading.
C27_Witness ==
    /\ lastOp = "submitQuery" /\ loading = TRUE
    /\ Cardinality(inflight) = 2
    /\ Len(msgs) = 4 /\ msgs[2].isLoading /\ msgs[4].isLoading
    /\ msgs[2].id # msgs[4].id

(* C28: a message is immutable except for its single resolve/fail
   transition: a user message never changes after it is appended, and an
   assistant message whose isLoading is false is changed by no later
   action or completion (clearChat removes messages, it does not change
   them). *)
C28_MessagesImmutable ==
    [][ lastOp' # "clearChat" =>
          \A i \in DOMAIN msgs :
             (msgs[i].role = "user" \/ ~msgs[i].isLoading)
             => (i \in DOMAIN state'.messages /\ state'.messages[i] = msgs[i]) ]_vars

(* C29: in every reachable state each message with isLoading = true is the
   placeholder of exactly one in-flight request, each in-flight request
   targets at most one message, the loading messages are no more than the
   in-flight requests, and no user message has isLoading = true. *)
C29_LoadingMatchesInFlight ==
    /\ \A i \in DOMAIN msgs :
          msgs[i].isLoading =>
             /\ msgs[i].role = "assistant"
             /\ Cardinality({ r \in inflight : r.loadId = msgs[i].id }) = 1
    /\ \A r \in inflight :
          Cardinality({ i \in DOMAIN msgs : msgs[i].id = r.loadId }) <= 1
    /\ Cardinality({ i \in DOMAIN msgs : msgs[i].isLoading }) <= Cardinality(inflight)

(* C30: every appended message gets a unique id: in every reachable state
   the ids of the messages are pairwise distinct. *)
C30_MessageIdsDistinct ==
    \A i, j \in DOMAIN msgs : i # j => msgs[i].id # msgs[j].id

(* C31: only a transport rejection sets the last error: a response the
   Query API returns, whatever its status, is resolved onto its placeholder
   and leaves the last error as it was. *)
C31_ResponseLeavesError ==
    [][ lastOp' = "fulfilled" =>
          /\ error' = error
          /\ \A i \in DOMAIN msgs :
                msgs[i].id = settled.loadId
                => state'.messages[i].response = lastResolved' ]_vars

\* A failure response without sub-answers was resolved onto its
\* placeholder and the last error is still null.
C31_Witness ==
    /\ lastOp = "fulfilled" /\ error = Null /\ Len(msgs) = 2
    /\ msgs[2].response = Some(Response("c1", "failure", <<>>))
    /\ msgs[2].isLoading = FALSE

(* C32: a request dispatched before clearChat that rejects after the clear
   is a no-op: the last error stays as it is, null as clearChat left it
   unless an action started after the clear has failed.  With ids that do
   not repeat, the placeholder of a request is missing only when a
   clearChat came after its dispatch. *)
C32_LateRejectionKeepsError ==
    [][ (/\ lastOp' = "rejected"
         /\ ~HasId(settled.loadId)
         /\ collisions = 0)
        => error' = error ]_vars

(* C33: after clearChat the conversation starts afresh: the first sendQuery
   dispatched by a submitQuery after the clear carries an undefined
   conversationId, whatever requests were in flight at the clear and
   whenever they complete.  The list is empty from a clearChat until the
   next call that appends, so a submitQuery on an empty list is the first
   one after the clear, or the first one of the session. *)
C33_FreshConversationAfterClear ==
    [][ (/\ lastOp' = "submitQuery"
         /\ msgs = <<>>
         /\ collisions = 0)
        => \A r \in inflight' \ inflight : r.conversationId = Undefined ]_vars

(* C34: the subAnswerIndex of every sendClarification request is a valid
   index into the sub_answers of the most recently resolved response
   (0 <= index < length), and the sub-answer there has status
   clarification_required. *)
C34_ClarificationIndexValid ==
    [][ (lastOp' = "submitClarification" /\ collisions = 0) =>
          \A r \in inflight' \ inflight :
             /\ lastResolved # Undefined
             /\ r.subAnswerIndex # Undefined
             /\ LET idx == r.subAnswerIndex[1]
                    sas == lastResolved[1].sub_answers
                IN /\ 0 <= idx /\ idx < Len(sas)
                   /\ sas[idx + 1].status = "clarification_required" ]_vars

(* C35: whenever hasPendingClarification is true, a submitClarification
   call is not a no-op: it appends its two messages and issues a
   sendClarification request with the conversationId held. *)
C35_PendingMeansDispatch ==
    [][ (/\ lastOp' = "submitClarification"
         /\ hasPendingClarification
         /\ collisions = 0)
        => (/\ Truthy(state.conversationId)
            /\ ClarificationDispatched) ]_vars

(* C36: fail(id, errorText) leaves conversationId and
   pendingClarificationIndex unchanged; so when the request of a
   submitClarification is rejected the clarification stays pending with
   the same index, and a submitClarification made next dispatches
   sendClarification again with that conversationId and index. *)
C36_FailKeepsPending ==
    /\ [][ lastOp' = "rejected" =>
             /\ state'.conversationId = state.conversationId
             /\ state'.pendingClarificationIndex = state.pendingClarificationIndex ]_vars
    /\ [][ (/\ lastOp = "rejected" /\ lastOp' = "submitClarification"
            /\ Truthy(state.conversationId)
            /\ state.pendingClarificationIndex # Undefined)
           => ClarificationDispatched ]_vars

\* The first clarification of the second sub-answer was rejected and the
\* clarification was sent again, with the same conversation id and index.
C36_Witness ==
    /\ lastOp = "submitClarification" /\ calls = 2 /\ Len(msgs) = 6
    /\ msgs[3].content = "Clarification: yearly revenue"
    /\ msgs[4].response # NoResponse /\ msgs[4].response[1].status = "failure"
    /\ msgs[5].content = "Clarification: yearly revenue" /\ msgs[6].isLoading
    /\ state.pendingClarificationIndex = Some(1)
    /\ inflight = { ClarificationRequest(2, msgs[6].id, Some("c1"), Some(1), "yearly revenue") }

(* C37: in every reachable state messages consists of adjacent pairs: its
   length is even, and each message at an even 0-based position has role
   user and is followed by an assistant message, the placeholder the same
   call created; this holds also when several calls are started before
   any completes. *)
C37_AdjacentPairs ==
    /\ [](/\ Len(msgs) % 2 = 0
          /\ \A k \in 1..(Len(msgs) \div 2) :
                msgs[2 * k - 1].role = "user" /\ msgs[2 * k].role = "assistant")
    /\ [][ Len(state'.messages) > Len(msgs) =>
             /\ Len(state'.messages) = Len(msgs) + 2
             /\ state'.messages[Len(msgs) + 1].role = "user"
             /\ state'.messages[Len(msgs) + 2].role = "assistant"
             /\ state'.messages[Len(msgs) + 2].isLoading
             /\ \E r \in inflight' \ inflight :
                   r.loadId = state'.messages[Len(msgs) + 2].id ]_vars

\* A query was retried while it was still pending: two pairs, each user
\* message followed by the placeholder of its own request.
C37_Witness ==
    /\ Len(msgs) = 4 /\ Cardinality(inflight) = 2 /\ collisions = 0
    /\ lastOp = "retryLast"
    /\ msgs[1].role = "user" /\ msgs[2].role = "assistant" /\ msgs[2].isLoading
    /\ msgs[3].role = "user" /\ msgs[4].role = "assistant" /\ msgs[4].isLoading
    /\ \E r \in inflight : r.call = 1 /\ r.loadId = msgs[2].id
    /\ \E r \in inflight : r.call = 2 /\ r.loadId = msgs[4].id

(* C38: in every reachable state loading is true if and only if at least
   one message has isLoading = true.  Runs in which makeId repeated an id
   are left aside. *)
C38_LoadingIffPlaceholder ==
    collisions = 0 =>
       (loading = TRUE <=> \E i \in DOMAIN msgs : msgs[i].isLoading)

====
